---- MODULE Spec2Model ----
(***************************************************************************)
(* comva (src/main.rs): index the media files under a directory, then      *)
(* recompress each one on a fixed pool of worker threads.                   *)
(*                                                                         *)
(* State: the filesystem, the options, the main thread's position, the     *)
(* pool's channel and workers, and each job's locals (compress_file).      *)
(* One action per filesystem call, channel operation or thread step.       *)
(***************************************************************************)
EXTENDS Naturals, Sequences, FiniteSets, TLC

(* ---------------------------- bounds ---------------------------------- *)
\* files in the directory when the first run starts
MaxFiles == 2
\* consecutive runs of the program over the same directory
MaxRuns == 2
\* largest value of Options.threads
MaxThreads == 2

(* ---------------------------- paths ----------------------------------- *)
\* A path is [dir, name]: dir the sequence of directory names under the
\* working directory, name the file name split at its dots, so that
\* a.png.tmp is <<"a", "png", "tmp">>.
P(d, n) == [dir |-> d, name |-> n]

\* the file name has an extension: a dot that is not its first character
has_extension(p) ==
    Len(p.name) > 1 /\ ~(Len(p.name) = 2 /\ p.name[1] = "")

\* PathBuf::extension: the part after the last dot, <<>> for none (Option)
extension(p) ==
    IF has_extension(p) THEN <<p.name[Len(p.name)]>> ELSE <<>>

\* the file name without its extension
file_stem(p) ==
    IF has_extension(p) THEN SubSeq(p.name, 1, Len(p.name) - 1) ELSE p.name

\* PathBuf::with_extension / set_extension: the extension (after the last
\* dot) is replaced by ext, itself split at its dots
with_extension(p, ext) == [dir |-> p.dir, name |-> file_stem(p) \o ext]

\* str::to_lowercase on the extensions of the model
to_lowercase(e) ==
    CASE e = "PNG" -> "png"
      [] e = "JPG" -> "jpg"
      [] e = "MP3" -> "mp3"
      [] OTHER -> e

MediaType == {"Image", "Audio", "Video"}

\* #[derive(Ord)] on MediaType: declaration order
MediaRank(mt) ==
    CASE mt = "Image" -> 1
      [] mt = "Audio" -> 2
      [] mt = "Video" -> 3

\* the extensions table of main
extensions ==
    [e \in {"gif", "jpg", "jpeg", "png", "bmp", "webp", "avif"} |-> "Image"]
    @@ [e \in {"mp4", "avi", "mov", "flv", "mkv"} |-> "Video"]
    @@ [e \in {"mp3", "wav", "ogg", "flac", "opus", "m4a", "webm"} |-> "Audio"]

(* ---------------------------- the directory --------------------------- *)
Root == <<>>

\* the files a directory may hold when the first run starts
Candidates ==
    { P(Root, <<"a", "png">>),
      P(Root, <<"a", "PNG">>),
      P(Root, <<"a", "jpg">>),
      P(Root, <<"c", "txt">>),
      P(<<"sub">>, <<"b", "mp3">>) }

\* a file's content: whose original bytes it derives from, how many times a
\* codec has rewritten them, and whether the write was completed
Content(origin, gen, whole) == [origin |-> origin, gen |-> gen, whole |-> whole]

\* Option<Option<String>> of image_ext, audio_ext, video_ext:
\* <<>> is None, <<"">> is Some(None), <<e>> is Some(Some(e))
ExtFlag(exts) == {<<>>, <<"">>} \cup {<<e>> : e \in exts}

OptionsSet ==
    [ image_ext : ExtFlag({"png"}),
      audio_ext : {<<"">>},
      video_ext : {<<>>},
      keep_files : BOOLEAN,
      threads : 0..MaxThreads ]

VARIABLES
    fs,        \* the files on disk: path -> content
    options,   \* Options::parse()
    run,       \* which consecutive run of the program this is
    mainpc,    \* the main thread's position
    index,     \* Vec<MediaIndex> returned by index()
    jobs,      \* the closures handed to execute, with compress_file's locals
    queue,     \* the mpsc channel: NewJob(i) is i, Terminate is 0
    wstate,    \* each worker thread's position
    cur,       \* the job a worker is running (0: none)
    joined,    \* Drop: how many workers have been joined
    sent,      \* Drop: how many Terminate messages have been sent
    fs0,       \* the files on disk when the run started
    events     \* what each job of the run has done to the filesystem

vars == <<fs, options, run, mainpc, index, jobs, queue, wstate, cur,
          joined, sent, fs0, events>>

Workers == 1..options.threads

Terminate == 0

(* ---------------------------- init ------------------------------------ *)
Init ==
    /\ \E files \in SUBSET Candidates :
          /\ Cardinality(files) <= MaxFiles
          /\ fs = [p \in files |-> Content(p, 0, TRUE)]
    /\ options \in OptionsSet
    /\ run = 1
    /\ mainpc = "index"
    /\ index = <<>>
    /\ jobs = <<>>
    /\ queue = <<>>
    /\ wstate = <<>>
    /\ cur = <<>>
    /\ joined = 0
    /\ sent = 0
    /\ fs0 = fs
    /\ events = {}

(* ---------------------------- index ----------------------------------- *)
is_file(p) == p \in DOMAIN fs

\* the directories on disk: every prefix of a file's directory
Dirs == UNION { { SubSeq(p.dir, 1, k) : k \in 1..Len(p.dir) } : p \in DOMAIN fs }

\* a directory as an entry of its parent
DirEntry(d) == P(SubSeq(d, 1, Len(d) - 1), <<d[Len(d)]>>)

\* is_dir that takes no entry for a directory
is_dir_never(p) == FALSE

is_dir(p) == \E d \in Dirs : DirEntry(d) = p

\* everything fs::read_dir can yield, for any directory
Entries == DOMAIN fs \cup { DirEntry(d) : d \in Dirs }

\* the orders in which the operating system may list the entries
Orders ==
    { o \in [1..Cardinality(Entries) -> Entries] :
        \A i, j \in DOMAIN o : i # j => o[i] # o[j] }

\* fs::read_dir(directory): its entries, in the operating system's order
read_dir(directory, order) ==
    SelectSeq(order, LAMBDA e : e.dir = directory)

MediaIndex(path, mt) == [path |-> path, media_type |-> mt]

RECURSIVE index_files(_, _)
RECURSIVE index_loop(_, _)

\* the body of the for loop of index_files, over the entries left
index_loop(ents, order) ==
    IF ents = <<>> THEN <<>>
    ELSE LET path == Head(ents)
             ext == extension(path)
             here ==
               IF is_file(path)
               THEN IF ext # <<>> /\ to_lowercase(ext[1]) \in DOMAIN extensions
                    THEN <<MediaIndex(path, extensions[to_lowercase(ext[1])])>>
                    ELSE <<>>
               ELSE IF is_dir(path)
               THEN index_files(path.dir \o path.name, order)
               ELSE <<>>
         IN here \o index_loop(Tail(ents), order)

index_files(directory, order) ==
    index_loop(read_dir(directory, order), order)

\* sort_by_media_type that leaves the items in the order of the walk
sort_by_media_type_none(items) == items

\* Vec::sort_by on media_type: stable
sort_by_media_type(items) ==
    LET ranked(r) == SelectSeq(items, LAMBDA x : MediaRank(x.media_type) = r)
    IN ranked(1) \o ranked(2) \o ranked(3)

index_of(directory, order) == sort_by_media_type(index_files(directory, order))

(* ---------------------------- compress_file: locals ------------------- *)
\* format_flag reading one field for every media type
format_flag_audio(mt) == options.audio_ext

format_flag(mt) ==
    CASE mt = "Image" -> options.image_ext
      [] mt = "Audio" -> options.audio_ext
      [] mt = "Video" -> options.video_ext

\* output_ext without the to_lowercase of the source extension
output_ext_verbatim(mt, source_path) ==
    IF format_flag(mt)[1] = ""
    THEN extension(source_path)[1]
    ELSE format_flag(mt)[1]

\* ext_option.unwrap_or(lowercased source extension)
output_ext(mt, source_path) ==
    IF format_flag(mt)[1] = ""
    THEN to_lowercase(extension(source_path)[1])
    ELSE format_flag(mt)[1]

output_path(mt, source_path) ==
    with_extension(source_path, <<output_ext(mt, source_path)>>)

\* tmp_path with "tmp" put in front of the source extension
tmp_path_infix(source_path) ==
    with_extension(source_path, <<"tmp", extension(source_path)[1]>>)

\* input_path.set_extension(source_ext + ".tmp")
tmp_path(source_path) ==
    with_extension(source_path, <<extension(source_path)[1], "tmp">>)

\* input_path.with_extension("backup")
backup_path(input_path) == with_extension(input_path, <<"backup">>)

\* the closure compress handed to execute, and compress_file's locals;
\* taken counts the times a worker has received the closure
NewJob(entry) ==
    [ media_type |-> entry.media_type,
      source_path |-> entry.path,
      input_path |-> entry.path,
      overwritten |-> FALSE,
      result |-> "none",
      taken |-> 0,
      pc |-> "queued" ]

JobOutput(j) == output_path(j.media_type, j.source_path)

Event(i, op, path) == [job |-> i, op |-> op, path |-> path]

(* ---------------------------- main thread ----------------------------- *)
\* main: canonicalize and index succeed
Index ==
    /\ mainpc = "index"
    /\ \E order \in Orders : index' = index_of(Root, order)
    /\ mainpc' = "new"
    /\ UNCHANGED <<fs, options, run, jobs, queue, wstate, cur, joined, sent,
                   fs0, events>>

\* main: canonicalize or read_dir fails, `?` returns the error from main
IndexFails ==
    /\ mainpc = "index"
    /\ mainpc' = "error"
    /\ UNCHANGED <<fs, options, run, index, jobs, queue, wstate, cur, joined,
                   sent, fs0, events>>

\* the workers whose thread has ended, so whose Arc of the receiver is dropped
Gone == { w \in DOMAIN wstate : wstate[w] \in {"exited", "panicked"} }

\* Sender::send fails once every receiver handle has been dropped
send_fails == Gone = DOMAIN wstate

\* ThreadPool::new
PoolNew ==
    /\ mainpc = "new"
    /\ IF options.threads > 0
       THEN /\ wstate' = [w \in Workers |-> "idle"]
            /\ cur' = [w \in Workers |-> 0]
            /\ mainpc' = IF index = <<>> THEN "drop_send" ELSE "execute"
       ELSE /\ mainpc' = "panicked"
            /\ UNCHANGED <<wstate, cur>>
    /\ UNCHANGED <<fs, options, run, index, jobs, queue, joined, sent, fs0,
                   events>>

\* one turn of the loop of compress: ThreadPool::execute
Execute ==
    /\ mainpc = "execute"
    /\ LET i == Len(jobs) + 1 IN
         IF send_fails
         THEN /\ mainpc' = "panicked"
              /\ UNCHANGED <<jobs, queue>>
         ELSE /\ jobs' = Append(jobs, NewJob(index[i]))
              /\ queue' = Append(queue, i)
              /\ mainpc' = IF i = Len(index) THEN "drop_send" ELSE "execute"
    /\ UNCHANGED <<fs, options, run, index, wstate, cur, joined, sent, fs0,
                   events>>

\* DropSend that sends two Terminate for one worker
DropSend_twice ==
    /\ mainpc = "drop_send"
    /\ IF send_fails
       THEN /\ mainpc' = "panicked"
            /\ UNCHANGED <<queue, sent>>
       ELSE /\ queue' = queue \o <<Terminate, Terminate>>
            /\ sent' = sent + 1
            /\ mainpc' = IF sent' = options.threads THEN "drop_join"
                         ELSE "drop_send"
    /\ UNCHANGED <<fs, options, run, index, jobs, wstate, cur, joined, fs0,
                   events>>

\* DropSend that counts a Terminate without sending it
DropSend_none ==
    /\ mainpc = "drop_send"
    /\ sent' = sent + 1
    /\ mainpc' = IF sent' = options.threads THEN "drop_join" ELSE "drop_send"
    /\ UNCHANGED <<fs, options, run, index, jobs, queue, wstate, cur, joined,
                   fs0, events>>

\* Drop for ThreadPool, first loop: one Terminate
DropSend ==
    /\ mainpc = "drop_send"
    /\ IF send_fails
       THEN /\ mainpc' = "panicked"
            /\ UNCHANGED <<queue, sent>>
       ELSE /\ queue' = Append(queue, Terminate)
            /\ sent' = sent + 1
            /\ mainpc' = IF sent' = options.threads THEN "drop_join"
                         ELSE "drop_send"
    /\ UNCHANGED <<fs, options, run, index, jobs, wstate, cur, joined, fs0,
                   events>>

\* DropJoin with a join that does not wait for the thread to end
DropJoin_nowait ==
    /\ mainpc = "drop_join"
    /\ joined' = joined + 1
    /\ mainpc' = IF joined' = options.threads THEN "print" ELSE "drop_join"
    /\ UNCHANGED <<fs, options, run, index, jobs, queue, wstate, cur, sent,
                   fs0, events>>

\* Drop for ThreadPool, second loop: join the next worker
DropJoin ==
    /\ mainpc = "drop_join"
    /\ LET w == joined + 1 IN
         \/ /\ wstate[w] = "exited"
            /\ joined' = w
            /\ mainpc' = IF w = options.threads THEN "print" ELSE "drop_join"
         \/ /\ wstate[w] = "panicked"
            /\ mainpc' = "panicked"
            /\ UNCHANGED joined
    /\ UNCHANGED <<fs, options, run, index, jobs, queue, wstate, cur, sent,
                   fs0, events>>

\* main: print!("Operation completed.") and return Ok
Completed ==
    /\ mainpc = "print"
    /\ mainpc' = "done"
    /\ UNCHANGED <<fs, options, run, index, jobs, queue, wstate, cur, joined,
                   sent, fs0, events>>

\* the process has ended, having run its pool, and the program is started
\* again in the directory (a run that failed to index has changed nothing)
NextRun ==
    /\ mainpc \in {"done", "panicked"}
    /\ run < MaxRuns
    /\ run' = run + 1
    /\ mainpc' = "index"
    /\ index' = <<>>
    /\ jobs' = <<>>
    /\ queue' = <<>>
    /\ wstate' = <<>>
    /\ cur' = <<>>
    /\ joined' = 0
    /\ sent' = 0
    /\ fs0' = fs
    /\ events' = {}
    /\ UNCHANGED <<fs, options>>

\* the worker threads run while the process does
Running == mainpc \in {"execute", "drop_send", "drop_join"}

(* ---------------------------- worker threads -------------------------- *)
\* Lock with the guard alive until the worker's job has returned
Lock_held(w) ==
    /\ Running
    /\ wstate[w] = "idle"
    /\ \A v \in DOMAIN wstate : wstate[v] \notin {"recv", "job"}
    /\ wstate' = [wstate EXCEPT ![w] = "recv"]
    /\ UNCHANGED <<fs, options, run, mainpc, index, jobs, queue, cur, joined,
                   sent, fs0, events>>

\* Worker::new, the loop: receiver.lock() is granted to one worker at a time
Lock(w) ==
    /\ Running
    /\ wstate[w] = "idle"
    /\ \A v \in DOMAIN wstate : wstate[v] # "recv"
    /\ wstate' = [wstate EXCEPT ![w] = "recv"]
    /\ UNCHANGED <<fs, options, run, mainpc, index, jobs, queue, cur, joined,
                   sent, fs0, events>>

\* Recv with a receive that leaves the message in the channel
Recv_peek(w) ==
    /\ Running
    /\ wstate[w] = "recv"
    /\ queue # <<>>
    /\ queue' = queue
    /\ IF Head(queue) = Terminate
       THEN /\ wstate' = [wstate EXCEPT ![w] = "exited"]
            /\ UNCHANGED <<cur, jobs>>
       ELSE /\ wstate' = [wstate EXCEPT ![w] = "job"]
            /\ cur' = [cur EXCEPT ![w] = Head(queue)]
            /\ jobs' = [jobs EXCEPT ![Head(queue)].pc = "begin",
                                    ![Head(queue)].taken = @ + 1]
    /\ UNCHANGED <<fs, options, run, mainpc, index, joined, sent, fs0, events>>

\* Worker::new, the loop: recv() returns the oldest message and the lock is
\* released; Terminate breaks the loop, NewJob calls the job
Recv(w) ==
    /\ Running
    /\ wstate[w] = "recv"
    /\ queue # <<>>
    /\ queue' = Tail(queue)
    /\ IF Head(queue) = Terminate
       THEN /\ wstate' = [wstate EXCEPT ![w] = "exited"]
            /\ UNCHANGED <<cur, jobs>>
       ELSE /\ wstate' = [wstate EXCEPT ![w] = "job"]
            /\ cur' = [cur EXCEPT ![w] = Head(queue)]
            /\ jobs' = [jobs EXCEPT ![Head(queue)].pc = "begin",
                                    ![Head(queue)].taken = @ + 1]
    /\ UNCHANGED <<fs, options, run, mainpc, index, joined, sent, fs0, events>>

\* the job returns: the worker is back at the top of its loop
Return(w) ==
    /\ wstate' = [wstate EXCEPT ![w] = "idle"]
    /\ cur' = [cur EXCEPT ![w] = 0]

\* Panic with the panic caught in the worker's loop, which goes on
Panic_resume(w) ==
    /\ wstate' = [wstate EXCEPT ![w] = "idle"]
    /\ jobs' = [jobs EXCEPT ![cur[w]].pc = "panicked"]
    /\ cur' = [cur EXCEPT ![w] = 0]
    /\ UNCHANGED <<fs, events>>

\* the job panics: the worker's thread ends
Panic(w) ==
    /\ wstate' = [wstate EXCEPT ![w] = "panicked"]
    /\ jobs' = [jobs EXCEPT ![cur[w]].pc = "panicked"]
    /\ UNCHANGED <<cur, fs, events>>

\* the worker is in its job, at position pc of compress_file
At(w, pc) ==
    /\ Running
    /\ wstate[w] = "job"
    /\ jobs[cur[w]].pc = pc

(* ---------------------------- compress_file --------------------------- *)
\* fs::rename: the file at `from` is moved to `to`, replacing what is there
rename(from, to) ==
    [p \in (DOMAIN fs \ {from}) \cup {to} |-> IF p = to THEN fs[from] ELSE fs[p]]

\* fs::remove_file
remove_file(path) == [p \in DOMAIN fs \ {path} |-> fs[p]]

\* a codec writes (creating or replacing) the file at path
write(path, content) ==
    [p \in DOMAIN fs \cup {path} |-> IF p = path THEN content ELSE fs[p]]

\* no target extension for the media type: compress_file does nothing
SkipNoFormat(w) ==
    /\ At(w, "begin")
    /\ format_flag(jobs[cur[w]].media_type) = <<>>
    /\ jobs' = [jobs EXCEPT ![cur[w]].pc = "noop"]
    /\ Return(w)
    /\ UNCHANGED <<fs, options, run, mainpc, index, queue, joined, sent, fs0,
                   events>>

\* source_path == output_path: the source is renamed to its .tmp sibling
RenameAside(w) ==
    /\ At(w, "begin")
    /\ LET i == cur[w]
           j == jobs[i]
           tmp == tmp_path(j.source_path)
       IN /\ format_flag(j.media_type) # <<>>
          /\ j.source_path = JobOutput(j)
          /\ \/ /\ j.source_path \in DOMAIN fs
                /\ fs' = rename(j.source_path, tmp)
                /\ jobs' = [jobs EXCEPT ![i].input_path = tmp,
                                        ![i].overwritten = TRUE,
                                        ![i].pc = "check"]
                /\ events' = events \cup {Event(i, "rename_aside", tmp)}
                /\ UNCHANGED <<wstate, cur>>
             \/ /\ j.source_path \notin DOMAIN fs
                /\ Panic(w)
    /\ UNCHANGED <<options, run, mainpc, index, queue, joined, sent, fs0>>

\* output_path.exists(): the job returns if it does
CheckOutput(w) ==
    /\ \/ At(w, "check")
       \/ /\ At(w, "begin")
          /\ format_flag(jobs[cur[w]].media_type) # <<>>
          /\ jobs[cur[w]].source_path # JobOutput(jobs[cur[w]])
    /\ IF JobOutput(jobs[cur[w]]) \in DOMAIN fs
       THEN /\ jobs' = [jobs EXCEPT ![cur[w]].pc = "skipped"]
            /\ Return(w)
       ELSE /\ jobs' = [jobs EXCEPT ![cur[w]].pc = "codec"]
            /\ UNCHANGED <<wstate, cur>>
    /\ UNCHANGED <<fs, options, run, mainpc, index, queue, joined, sent, fs0,
                   events>>

\* what the codec makes of the input
Compressed(c) == Content(c.origin, c.gen + 1, TRUE)
Partial(c) == Content(c.origin, c.gen + 1, FALSE)

\* Codec with the result unwrapped: Err panics
Codec_unwrap(w) ==
    /\ At(w, "codec")
    /\ LET i == cur[w]
           j == jobs[i]
           out == JobOutput(j)
       IN \/ /\ j.input_path \in DOMAIN fs
             /\ fs' = write(out, Compressed(fs[j.input_path]))
             /\ jobs' = [jobs EXCEPT ![i].pc = "retain", ![i].result = "Ok"]
             /\ events' = events \cup {Event(i, "codec", out),
                                       Event(i, "write", out)}
             /\ UNCHANGED <<wstate, cur>>
          \/ /\ fs' = fs
             /\ jobs' = [jobs EXCEPT ![i].pc = "failed", ![i].result = "Err"]
             /\ events' = events \cup {Event(i, "codec", out)}
             /\ wstate' = [wstate EXCEPT ![w] = "panicked"]
             /\ UNCHANGED cur
    /\ UNCHANGED <<options, run, mainpc, index, queue, joined, sent, fs0>>

\* Codec with the input removed on Err as well
Codec_cleanup(w) ==
    /\ At(w, "codec")
    /\ LET i == cur[w]
           j == jobs[i]
           out == JobOutput(j)
       IN \/ /\ j.input_path \in DOMAIN fs
             /\ fs' = write(out, Compressed(fs[j.input_path]))
             /\ jobs' = [jobs EXCEPT ![i].pc = "retain", ![i].result = "Ok"]
             /\ events' = events \cup {Event(i, "codec", out),
                                       Event(i, "write", out)}
             /\ UNCHANGED <<wstate, cur>>
          \/ /\ fs' = remove_file(j.input_path)
             /\ jobs' = [jobs EXCEPT ![i].pc = "failed", ![i].result = "Err"]
             /\ events' = events \cup {Event(i, "codec", out)}
             /\ Return(w)
    /\ UNCHANGED <<options, run, mainpc, index, queue, joined, sent, fs0>>

\* compress_image / compress_ffmpeg: Ok with the output written, or Err with
\* no output or a partial one; Err when the input cannot be read.
\* On Err compress_file prints the error and returns.
\* The worker is blocked in the call while the job is at "codec"; the call's
\* read and write take effect in this one step.
Codec(w) ==
    /\ At(w, "codec")
    /\ LET i == cur[w]
           j == jobs[i]
           out == JobOutput(j)
       IN \/ /\ j.input_path \in DOMAIN fs
             /\ fs' = write(out, Compressed(fs[j.input_path]))
             /\ jobs' = [jobs EXCEPT ![i].pc = "retain", ![i].result = "Ok"]
             /\ events' = events \cup {Event(i, "codec", out),
                                       Event(i, "write", out)}
             /\ UNCHANGED <<wstate, cur>>
          \/ /\ j.input_path \in DOMAIN fs
             /\ fs' = write(out, Partial(fs[j.input_path]))
             /\ jobs' = [jobs EXCEPT ![i].pc = "failed", ![i].result = "Err"]
             /\ events' = events \cup {Event(i, "codec", out),
                                       Event(i, "write", out)}
             /\ Return(w)
          \/ /\ fs' = fs
             /\ jobs' = [jobs EXCEPT ![i].pc = "failed", ![i].result = "Err"]
             /\ events' = events \cup {Event(i, "codec", out)}
             /\ Return(w)
    /\ UNCHANGED <<options, run, mainpc, index, queue, joined, sent, fs0>>

\* Retain without the test of keep_files
Retain_always(w) ==
    /\ At(w, "retain")
    /\ LET i == cur[w]
           j == jobs[i]
       IN /\ j.input_path \in DOMAIN fs
          /\ fs' = remove_file(j.input_path)
          /\ events' = events \cup {Event(i, "remove", j.input_path)}
          /\ jobs' = [jobs EXCEPT ![i].pc = "ok"]
          /\ Return(w)
    /\ UNCHANGED <<options, run, mainpc, index, queue, joined, sent, fs0>>

\* Ok(_): the retention policy
Retain(w) ==
    /\ At(w, "retain")
    /\ LET i == cur[w]
           j == jobs[i]
           backup == backup_path(j.input_path)
       IN IF ~options.keep_files
          THEN \/ /\ j.input_path \in DOMAIN fs
                  /\ fs' = remove_file(j.input_path)
                  /\ events' = events \cup {Event(i, "remove", j.input_path)}
                  /\ jobs' = [jobs EXCEPT ![i].pc = "ok"]
                  /\ Return(w)
               \/ /\ j.input_path \notin DOMAIN fs
                  /\ Panic(w)
          ELSE IF j.overwritten
          THEN \/ /\ j.input_path \in DOMAIN fs
                  /\ fs' = rename(j.input_path, backup)
                  /\ events' = events \cup {Event(i, "backup", backup)}
                  /\ jobs' = [jobs EXCEPT ![i].pc = "ok"]
                  /\ Return(w)
               \/ /\ j.input_path \notin DOMAIN fs
                  /\ Panic(w)
          ELSE /\ jobs' = [jobs EXCEPT ![i].pc = "ok"]
               /\ Return(w)
               /\ UNCHANGED <<fs, events>>
    /\ UNCHANGED <<options, run, mainpc, index, queue, joined, sent, fs0>>

(* ---------------------------- specification --------------------------- *)
\* one step of one run: the main thread's or a worker's
Step ==
    \/ Index
    \/ IndexFails
    \/ PoolNew
    \/ Execute
    \/ DropSend
    \/ DropJoin
    \/ Completed
    \/ \E w \in DOMAIN wstate :
          \/ Lock(w)
          \/ Recv(w)
          \/ SkipNoFormat(w)
          \/ RenameAside(w)
          \/ CheckOutput(w)
          \/ Codec(w)
          \/ Retain(w)

Next == Step \/ NextRun

\* consecutive runs of the program over the same directory
Spec == Init /\ [][Next]_vars

\* fs::rename or fs::remove_file returns Err for a reason outside the program
\* (permissions, a full disk): `expect` panics
FsError(w) ==
    /\ \/ /\ At(w, "begin")
          /\ format_flag(jobs[cur[w]].media_type) # <<>>
          /\ jobs[cur[w]].source_path = JobOutput(jobs[cur[w]])
       \/ /\ At(w, "retain")
          /\ ~options.keep_files \/ jobs[cur[w]].overwritten
    /\ Panic(w)
    /\ UNCHANGED <<options, run, mainpc, index, queue, joined, sent, fs0>>

\* one step of one run on a filesystem whose calls may fail
FaultStep == Step \/ \E w \in DOMAIN wstate : FsError(w)

FaultNext == FaultStep \/ NextRun

\* the program on a filesystem whose calls may fail
FaultSpec == Init /\ [][FaultNext]_vars

\* one run of the program on such a filesystem
FaultRun == Init /\ [][FaultStep]_vars

\* a worker's step at the channel: taking the lock, or receiving under it
PoolStep == \E w \in DOMAIN wstate : Lock(w) \/ Recv(w)

\* one run of the program in which a worker that can take the lock or
\* receive eventually does, while a job may stay in its codec for ever
LockFair == Init /\ [][Step]_vars /\ WF_vars(PoolStep)

\* one run of the program in which every thread that can take a step
\* eventually takes one, and every codec call returns
FairRun == Init /\ [][Step]_vars /\ WF_vars(Step)

\* a directory tree for the indexer: files without an extension, hidden
\* files, unmapped and upper-case extensions, files left by earlier runs,
\* and files one and two directories deep
Tree ==
    { P(Root, <<"a", "png">>),
      P(Root, <<"a", "PNG">>),
      P(Root, <<"README">>),
      P(Root, <<"", "png">>),
      P(Root, <<"c", "txt">>),
      P(Root, <<"a", "png", "tmp">>),
      P(Root, <<"a", "png", "backup">>),
      P(<<"sub">>, <<"b", "mp3">>),
      P(<<"sub", "deep">>, <<"d", "mp4">>) }

\* the largest number of files in the tree
MaxTree == 3

TreeInit ==
    /\ \E files \in SUBSET Tree :
          /\ Cardinality(files) <= MaxTree
          /\ fs = [p \in files |-> Content(p, 0, TRUE)]
    /\ options \in OptionsSet
    /\ run = 1
    /\ mainpc = "index"
    /\ index = <<>>
    /\ jobs = <<>>
    /\ queue = <<>>
    /\ wstate = <<>>
    /\ cur = <<>>
    /\ joined = 0
    /\ sent = 0
    /\ fs0 = fs
    /\ events = {}

\* main up to the return of index, over any such tree
IndexRun == TreeInit /\ [][Index \/ IndexFails]_vars

\* a directory with at most one file of each media type
Typed ==
    { P(Root, <<"a", "png">>),
      P(<<"sub">>, <<"b", "mp3">>),
      P(Root, <<"v", "mp4">>) }

TypedInit ==
    /\ \E files \in SUBSET Typed : fs = [p \in files |-> Content(p, 0, TRUE)]
    /\ options \in OptionsSet
    /\ run = 1
    /\ mainpc = "index"
    /\ index = <<>>
    /\ jobs = <<>>
    /\ queue = <<>>
    /\ wstate = <<>>
    /\ cur = <<>>
    /\ joined = 0
    /\ sent = 0
    /\ fs0 = fs
    /\ events = {}

\* one run of the program over such a directory
TypedRun == TypedInit /\ [][Step]_vars

(* ---------------------------- properties ------------------------------ *)
\* compress_file has returned
Finished(j) == j.pc \in {"noop", "skipped", "ok", "failed"}

\* how many times message m is in the channel
InQueue(m) == Cardinality({k \in DOMAIN queue : queue[k] = m})

\* C1: for any pool size N >= 1 and any number K of submitted jobs, when no
\* job panics, Drop has returned (main is at or past its print) only when
\* all K jobs have been executed, once each and to their end, and all N
\* worker threads have exited.
C1_DropDrains ==
    mainpc \in {"print", "done"} =>
        /\ Len(jobs) = Len(index)
        /\ \A i \in DOMAIN jobs : Finished(jobs[i]) /\ jobs[i].taken = 1
        /\ \A w \in DOMAIN wstate : wstate[w] = "exited"
        /\ DOMAIN wstate = 1..options.threads

\* Drop has returned from a pool of one worker that was given two jobs
C1_Witness ==
    /\ mainpc = "print"
    /\ options.threads = 1
    /\ Len(jobs) = 2

\* C2: one job is submitted per index entry, in index order; its message is
\* in the channel once until a worker receives it and never again; no job is
\* received twice, and no two workers run the same job.
C2_OncePerEntry ==
    /\ Len(jobs) <= Len(index)
    /\ mainpc \in {"drop_send", "drop_join", "print", "done"}
          => Len(jobs) = Len(index)
    /\ \A i \in DOMAIN jobs :
          /\ jobs[i].source_path = index[i].path
          /\ jobs[i].media_type = index[i].media_type
          /\ jobs[i].taken + InQueue(i) = 1
          /\ (jobs[i].pc = "queued") = (InQueue(i) = 1)
          /\ Cardinality({w \in DOMAIN cur : cur[w] = i}) <= 1
          /\ Cardinality({w \in DOMAIN cur : cur[w] = i}) = 1
                <=> jobs[i].pc \in {"begin", "check", "codec", "retain"}
    /\ \A k \in DOMAIN queue : queue[k] = Terminate \/ queue[k] \in DOMAIN jobs

\* two workers are running two jobs at once
C2_Witness ==
    \E v, w \in DOMAIN cur : v # w /\ cur[v] # 0 /\ cur[w] # 0 /\ cur[v] # cur[w]

\* the options name a target extension for the job's media type
HasTarget(j) ==
    \/ j.media_type = "Image" /\ options.image_ext # <<>>
    \/ j.media_type = "Audio" /\ options.audio_ext # <<>>
    \/ j.media_type = "Video" /\ options.video_ext # <<>>

Src(i) == jobs[i].source_path
Out(i) == JobOutput(jobs[i])
Tmp(i) == tmp_path(jobs[i].source_path)
Bak(i) == backup_path(tmp_path(jobs[i].source_path))

EventsOf(i) == {e \in events : e.job = i}

\* C3 (as claimed): when a job that converts in place ends after its codec
\* succeeded, the file at the source path is its new output, and either
\* (keep_files false) no .tmp file is left or (keep_files true) the original
\* content is at the .backup sibling.
C3_InPlaceEnds ==
    [][\A i \in DOMAIN jobs :
          (/\ i \in DOMAIN jobs'
           /\ jobs[i].overwritten
           /\ jobs[i].pc = "retain"
           /\ jobs'[i].pc = "ok")
          => /\ Src(i) \in DOMAIN fs'
             /\ fs'[Src(i)] = Compressed(fs0[Src(i)])
             /\ IF options.keep_files
                THEN Bak(i) \in DOMAIN fs' /\ fs'[Bak(i)] = fs0[Src(i)]
                ELSE Tmp(i) \notin DOMAIN fs']_vars

\* C4 (as claimed): a job whose output path held a file when the run started,
\* and is not its own source path, is skipped whatever the other jobs do: it
\* invokes no codec and renames and deletes nothing.
C4_SkipsExisting ==
    \A i \in DOMAIN jobs :
        (HasTarget(jobs[i]) /\ Out(i) # Src(i) /\ Out(i) \in DOMAIN fs0)
        => /\ jobs[i].pc \in {"queued", "begin", "skipped"}
           /\ EventsOf(i) = {}

\* C5 (as claimed): no two jobs of a run write the same output path.
C5_DistinctWrites ==
    \A d, e \in events :
        (d.op = "write" /\ e.op = "write" /\ d.path = e.path) => d.job = e.job

IsBackup(p) == extension(p) = <<"backup">>

\* C6 (as claimed): with keep_files, a .backup file on disk is never replaced
\* or removed, in this run or a later one.
C6_BackupKept ==
    [][options.keep_files =>
          \A p \in DOMAIN fs :
              IsBackup(p) => p \in DOMAIN fs' /\ fs'[p] = fs[p]]_vars

\* C7: a job calls remove_file only on its own input, only with keep_files
\* false and only once its codec has returned Ok, and a file of the run's
\* start is gone from its path only by that call or by a rename (aside, or
\* to .backup); with keep_files true, a job
\* whose output path differs from its source path ends with the source file
\* at its path holding the content it had when the run started.
C7_DeleteAfterOk ==
    /\ \A e \in events :
          e.op = "remove" =>
              /\ ~options.keep_files
              /\ jobs[e.job].result = "Ok"
              /\ e.path = jobs[e.job].input_path
    /\ \A p \in DOMAIN fs0 :
          p \notin DOMAIN fs =>
              \E e \in events :
                  \/ e.op = "remove" /\ e.path = p
                  \/ e.op = "rename_aside" /\ e.path = tmp_path(p)
                  \/ e.op = "backup" /\ e.path = backup_path(p)
    /\ \A i \in DOMAIN jobs :
          (/\ Finished(jobs[i])
           /\ HasTarget(jobs[i])
           /\ options.keep_files
           /\ Out(i) # Src(i))
          => Src(i) \in DOMAIN fs /\ fs[Src(i)] = fs0[Src(i)]

\* a job has removed its input after a successful conversion to another path
C7_Witness ==
    \E i \in DOMAIN jobs :
        /\ jobs[i].pc = "ok"
        /\ Out(i) # Src(i)
        /\ Event(i, "remove", Src(i)) \in events
        /\ Src(i) \notin DOMAIN fs

\* C8: a job whose codec failed after it renamed its source aside leaves the
\* original content under the .tmp name (so it has not renamed it back to
\* the source path), and has neither removed it nor renamed it to .backup.
C8_TmpLeft ==
    \A i \in DOMAIN jobs :
        (jobs[i].pc = "failed" /\ jobs[i].overwritten)
        => /\ Tmp(i) \in DOMAIN fs
           /\ fs[Tmp(i)] = fs0[Src(i)]
           /\ \A e \in EventsOf(i) : e.op \notin {"remove", "backup"}

\* a codec has failed on a file that was renamed aside
C8_Witness ==
    \E i \in DOMAIN jobs :
        /\ jobs[i].pc = "failed"
        /\ jobs[i].overwritten
        /\ Src(i) \notin DOMAIN fs

\* a codec has failed in some job of the run
SomeFailed == \E i \in DOMAIN jobs : jobs[i].pc = "failed"

\* C9: once a codec has failed in a job, no thread has panicked, the worker
\* that ran the job is back in its loop, and the run goes on to the end:
\* every job is executed, every worker exits and main prints its last line.
C9_FailureIsolated ==
    /\ [](SomeFailed =>
            /\ mainpc # "panicked"
            /\ \A w \in DOMAIN wstate :
                  /\ wstate[w] # "panicked"
                  /\ cur[w] # 0 => jobs[cur[w]].pc # "failed")
    /\ [](SomeFailed =>
            <>(/\ mainpc = "done"
               /\ \A i \in DOMAIN jobs : Finished(jobs[i])
               /\ \A w \in DOMAIN wstate : wstate[w] = "exited"))

\* a codec has failed in one job, and the worker that ran it is running
\* another job
C9_Witness ==
    \E i, k \in DOMAIN jobs, w \in DOMAIN wstate :
        /\ options.threads = 1
        /\ jobs[i].pc = "failed"
        /\ cur[w] = k
        /\ jobs[k].pc = "codec"

\* C10: a job whose media type has no target extension in the options goes
\* from received to returned in one step that leaves the filesystem as it
\* is: it renames, creates and removes nothing and invokes no codec.
C10_NoTargetNoOp ==
    [][\A i \in DOMAIN jobs' :
          ~HasTarget(jobs'[i]) =>
              /\ jobs'[i].pc \in {"queued", "begin", "noop"}
              /\ EventsOf(i)' = {}
              /\ (i \in DOMAIN jobs /\ jobs[i].pc # jobs'[i].pc) => fs' = fs]_vars

\* a job without a target extension has returned
C10_Witness ==
    \E i \in DOMAIN jobs : ~HasTarget(jobs[i]) /\ jobs[i].pc = "noop"

\* the options give the job's media type a target that is present but unset
Unset(j) ==
    \/ j.media_type = "Image" /\ options.image_ext = <<"">>
    \/ j.media_type = "Audio" /\ options.audio_ext = <<"">>
    \/ j.media_type = "Video" /\ options.video_ext = <<"">>

\* the job is past the test of source_path == output_path
PastBranch(j) == j.pc \in {"check", "codec", "retain", "ok", "failed", "skipped"}

\* the path's extension has no upper-case letter
LowerExt(p) == extension(p)[1] = to_lowercase(extension(p)[1])

\* C11 (as claimed): with the target extension present but unset, every
\* job's output path equals its source path, whatever the letter case of the
\* extension, and the job takes the in-place (rename-aside) branch.
C11_UnsetInPlace ==
    \A i \in DOMAIN jobs :
        Unset(jobs[i]) =>
            /\ Out(i) = Src(i)
            /\ PastBranch(jobs[i]) => jobs[i].overwritten

\* C11 (amended): with the target extension present but unset, the output
\* path is the source path with its extension lowercased; it equals the
\* source path, and the job takes the in-place branch, exactly when the
\* source extension is already lowercase; otherwise the job converts to the
\* lowercase sibling without renaming its source aside.
C11_UnsetLowercases ==
    \A i \in DOMAIN jobs :
        Unset(jobs[i]) =>
            /\ Out(i).dir = Src(i).dir
            /\ file_stem(Out(i)) = file_stem(Src(i))
            /\ extension(Out(i)) = <<to_lowercase(extension(Src(i))[1])>>
            /\ (Out(i) = Src(i)) <=> LowerExt(Src(i))
            /\ PastBranch(jobs[i]) => (jobs[i].overwritten <=> LowerExt(Src(i)))
            /\ ~jobs[i].overwritten => Event(i, "rename_aside", Tmp(i)) \notin events

\* a file with an upper-case extension was converted, its target unset, to
\* the lowercase sibling, and was not renamed aside
C11_Witness ==
    \E i \in DOMAIN jobs :
        /\ Unset(jobs[i])
        /\ ~LowerExt(Src(i))
        /\ jobs[i].pc = "ok"
        /\ ~jobs[i].overwritten
        /\ Out(i) \in DOMAIN fs
        /\ Out(i) # Src(i)

\* the extension of the path, lowercased, is a key of the extensions table
Mapped(p) ==
    /\ has_extension(p)
    /\ to_lowercase(extension(p)[1]) \in DOMAIN extensions

\* the positions of the index that hold the path
Positions(p) == {k \in DOMAIN index : index[k].path = p}

\* C12: once index has returned, the index holds exactly the regular files
\* under the root, at any depth, whose lowercased extension is a key of the
\* extensions table, each once and with the media type of that key; a file
\* with no extension or an unmapped one is absent.
C12_IndexExact ==
    mainpc \notin {"index", "error"} =>
        /\ \A p \in DOMAIN fs0 :
              Cardinality(Positions(p)) = IF Mapped(p) THEN 1 ELSE 0
        /\ \A k \in DOMAIN index :
              /\ index[k].path \in DOMAIN fs0
              /\ Mapped(index[k].path)
              /\ index[k].media_type =
                    extensions[to_lowercase(extension(index[k].path)[1])]

\* index has returned over a tree holding a file two directories deep, a
\* file with an upper-case extension and a file without an extension
C12_Witness ==
    /\ mainpc = "new"
    /\ Len(index) = 2
    /\ P(Root, <<"README">>) \in DOMAIN fs0
    /\ \E k \in DOMAIN index :
          index[k] = MediaIndex(P(<<"sub", "deep">>, <<"d", "mp4">>), "Video")
    /\ \E k \in DOMAIN index :
          index[k] = MediaIndex(P(Root, <<"a", "PNG">>), "Image")

\* a worker has received the job's message
Dequeued(j) == j.taken > 0

\* C13: the index is sorted Image < Audio < Video; the jobs' messages are in
\* the channel in the order of submission, which is index order, and are
\* received in that order: a job is dequeued only when every job before it
\* has been, so no Audio job before every Image job and no Video job before
\* every Audio job.
C13_DequeueOrder ==
    /\ \A i, k \in DOMAIN index :
          i < k => MediaRank(index[i].media_type) <= MediaRank(index[k].media_type)
    /\ \A a, b \in DOMAIN queue :
          (a < b /\ queue[a] # Terminate /\ queue[b] # Terminate)
          => queue[a] < queue[b]
    /\ \A i, k \in DOMAIN jobs :
          (i < k /\ Dequeued(jobs[k])) => Dequeued(jobs[i])
    /\ \A i \in DOMAIN index, k \in DOMAIN jobs :
          (/\ MediaRank(index[i].media_type) < MediaRank(jobs[k].media_type)
           /\ Dequeued(jobs[k]))
          => i \in DOMAIN jobs /\ Dequeued(jobs[i])

\* completions in another order: the Audio and the Video job have returned
\* while the Image job, dequeued before them, is still in its codec
C13_Witness ==
    \E i, k, m \in DOMAIN jobs :
        /\ jobs[i].media_type = "Image" /\ jobs[i].pc = "codec"
        /\ jobs[k].media_type = "Audio" /\ jobs[k].pc = "ok"
        /\ jobs[m].media_type = "Video" /\ Finished(jobs[m])

\* a rename or a removal has failed in some job: its `expect` has panicked
SomePanicked == \E i \in DOMAIN jobs : jobs[i].pc = "panicked"

\* the job's message is received in this step
Starts(i) == jobs[i].taken = 0 /\ jobs'[i].taken = 1

\* C14 (as claimed): once the rename-aside, the removal of the input or the
\* rename to .backup has failed in a job, no job that had not started is
\* started.
C14_FailureAborts ==
    [][SomePanicked => \A i \in DOMAIN jobs : ~Starts(i)]_vars

\* C14 (amended): such a failure ends the thread of the worker that ran the
\* job, and only that: the worker receives nothing more, main never reaches
\* its last print (it panics when it joins the worker, or when it sends with
\* no worker left), and a job that had not started is still started, by a
\* worker whose thread is alive and only by one.
C14_FailureEndsWorker ==
    [][/\ \A w \in DOMAIN wstate :
             /\ (cur[w] # 0 /\ jobs'[cur[w]].pc = "panicked")
                   => wstate'[w] = "panicked"
             /\ wstate[w] = "panicked"
                   => wstate'[w] = "panicked" /\ cur'[w] = cur[w]
       /\ SomePanicked' => mainpc' \notin {"print", "done"}
       /\ \A i \in DOMAIN jobs :
             Starts(i) =>
                 \E w \in DOMAIN wstate :
                     /\ wstate[w] = "recv"
                     /\ wstate'[w] = "job"
                     /\ cur'[w] = i]_vars

\* a job has panicked on a failed filesystem call while a later job is
\* still in the channel, and the other worker, its thread alive, is in recv
\* and about to receive that job
C14_Witness ==
    \E i, k \in DOMAIN jobs, w \in DOMAIN wstate :
        /\ jobs[i].pc = "panicked"
        /\ jobs[k].pc = "queued"
        /\ wstate[w] = "recv"
        /\ queue # <<>>
        /\ Head(queue) = k

\* C15 (as claimed): a job that has ended as skipped, its output existing,
\* has not renamed its source aside: it did not take the in-place branch,
\* its source is at its original path and it has left no .tmp file.
C15_SkippedFromPending ==
    \A i \in DOMAIN jobs :
        jobs[i].pc = "skipped" =>
            /\ ~jobs[i].overwritten
            /\ Event(i, "rename_aside", Tmp(i)) \notin events
            /\ Src(i) \in DOMAIN fs

\* every entry of the index has been submitted and its job has returned
AllReturned ==
    /\ mainpc \in {"drop_send", "drop_join", "print"}
    /\ Len(jobs) = Len(index)
    /\ \A i \in DOMAIN jobs : Finished(jobs[i])

\* C16: "Operation completed." is printed only when every entry of the
\* index has been submitted, every job has returned and every worker thread
\* has exited; and once every submitted job has returned, with a codec
\* failure in none, some or all of them, it is printed.
C16_CompletedAfterAll ==
    /\ [](mainpc = "done" =>
            /\ Len(jobs) = Len(index)
            /\ \A i \in DOMAIN jobs : Finished(jobs[i])
            /\ \A w \in DOMAIN wstate : wstate[w] = "exited"
            /\ queue = <<>>)
    /\ [](AllReturned => <>(mainpc = "done"))

\* the message has been printed after a run in which both jobs ended with a
\* codec failure
C16_Witness ==
    /\ mainpc = "done"
    /\ Len(jobs) = 2
    /\ \A i \in DOMAIN jobs : jobs[i].pc = "failed"

IsTmp(p) == extension(p) = <<"tmp">>

\* C17 (as claimed): a .tmp file that an earlier run left on disk, holding a
\* file's original content, is on disk with that content throughout every
\* later run: no rename-aside replaces it.
C17_TmpNeverReplaced ==
    \A p \in DOMAIN fs0 :
        (IsTmp(p) /\ fs0[p].gen = 0 /\ fs0[p].whole)
        => p \in DOMAIN fs /\ fs[p] = fs0[p]

\* the jobs some worker is running
RunningJobs ==
    {i \in DOMAIN jobs : jobs[i].pc \in {"begin", "check", "codec", "retain"}}

\* the workers that are in their loop and not in a job
Free == {w \in DOMAIN wstate : wstate[w] \in {"idle", "recv"}}

Exited == {w \in DOMAIN wstate : wstate[w] = "exited"}

\* C18: the lock of the receiver is held by at most one worker, and only by
\* one that is in recv, never by one in a job; at most N jobs run at once;
\* and when a message is at the head of the channel and some worker is not
\* in a job, a worker can take a step at the channel and the message is
\* received, whether or not any running job ever returns.
C18_LockOnlyInRecv ==
    /\ [](/\ Cardinality({w \in DOMAIN wstate : wstate[w] = "recv"}) <= 1
          /\ Cardinality(RunningJobs) <= options.threads
          /\ \A w \in DOMAIN wstate :
                (wstate[w] = "job") <=> (cur[w] \in RunningJobs)
          /\ (Running /\ queue # <<>> /\ Free # {}) => ENABLED PoolStep)
    /\ \A i \in 1..MaxFiles :
          []((Running /\ queue # <<>> /\ Head(queue) = i /\ Free # {})
             => <>((i \in DOMAIN jobs /\ Dequeued(jobs[i])) \/ ~Running))
    /\ \A n \in 0..MaxThreads :
          []((/\ Running /\ queue # <<>> /\ Head(queue) = Terminate
              /\ Free # {} /\ Cardinality(Exited) = n)
             => <>(Cardinality(Exited) > n \/ ~Running))

\* a worker has received the second job while the first is still in its
\* codec on the other worker
C18_Witness ==
    /\ options.threads = 2
    /\ Len(jobs) = 2
    /\ jobs[1].pc = "codec"
    /\ jobs[2].pc = "begin"
    /\ queue = <<>>

\* the worker's loop breaks in this step: it has received a Terminate
Breaks(w) == wstate[w] # "exited" /\ wstate'[w] = "exited"

\* C19: a worker thread ends its loop on the first Terminate it receives,
\* so each worker consumes at most one and every Terminate sent is either in
\* the channel or was consumed by one exited worker; the Terminates are
\* behind every NewJob in the channel, so a worker consumes one only when no
\* NewJob is queued; and when Drop has returned every worker has consumed
\* exactly one and the channel is empty.
C19_TerminateAccounting ==
    /\ [](/\ sent = InQueue(Terminate) + Cardinality(Exited)
          /\ sent <= options.threads
          /\ \A a, b \in DOMAIN queue :
                (a < b /\ queue[a] = Terminate) => queue[b] = Terminate
          /\ mainpc \in {"print", "done"} =>
                /\ queue = <<>>
                /\ sent = options.threads
                /\ Exited = DOMAIN wstate)
    /\ [][\A w \in DOMAIN wstate :
             /\ Breaks(w) =>
                   /\ Head(queue) = Terminate
                   /\ queue' = Tail(queue)
                   /\ \A k \in DOMAIN queue : queue[k] = Terminate
             /\ wstate[w] = "exited" => wstate'[w] = "exited"]_vars

\* Drop has returned from a pool of two workers that ran two jobs
C19_Witness ==
    /\ mainpc = "print"
    /\ options.threads = 2
    /\ sent = 2
    /\ Len(jobs) = 2
    /\ queue = <<>>

\* C20: the paths a job renames its source aside to, or its input to for
\* retention, end in .tmp and .backup, which are no keys of the extensions
\* table: no such path is in the index of any run, and none is the source
\* of a job.
C20_AsideNeverIndexed ==
    /\ \A e \in events :
          /\ e.op = "rename_aside" => IsTmp(e.path) /\ ~Mapped(e.path)
          /\ e.op = "backup" => IsBackup(e.path) /\ ~Mapped(e.path)
    /\ \A k \in DOMAIN index :
          ~IsTmp(index[k].path) /\ ~IsBackup(index[k].path)
    /\ \A i \in DOMAIN jobs :
          ~IsTmp(Src(i)) /\ ~IsBackup(Src(i))

\* the second run has indexed and submitted its jobs over a directory in
\* which the first run left a .tmp file and a .backup file
C20_Witness ==
    /\ run = 2
    /\ mainpc = "drop_send"
    /\ jobs # <<>>
    /\ \E p \in DOMAIN fs0 : IsTmp(p)
    /\ \E p \in DOMAIN fs0 : IsBackup(p)

====
